---- MODULE Spec2Model ----
\* A model of RadioObs (src/main.py): the Telescope and Source classes, the
\* altitude sampler Source.plot_altitude, the radiometer equation in
\* Source.print_integration_time and the prompt flow of main().
\*
\* Real numbers are kept exact.  A quantity is a monomial
\*     n/d * pi^p * k^b * 10^t
\* (record [n, d, p, b, t], d > 0, n/d in lowest terms) so that const.pi and
\* const.k never have to be rounded.  Floating-point rounding of the Python
\* code is not modelled.
\* Text read from the keyboard is a sequence of one-character strings.
EXTENDS Integers, Sequences, FiniteSets, TLC

\* ------------------------------------------------------------------ bounds
\* T_diameter ranges over 0..MaxDiameter metres.
MaxDiameter == 2
\* T_bandwidth ranges over 0..MaxBandwidth MHz.
MaxBandwidth == 1
\* S_flux_density ranges over 0..MaxFlux Jy.
MaxFlux == 1

\* ------------------------------------------------------- program constants
\* dt = 30*60 (seconds)
dt == 1800
\* the 86400 of np.arange(0, 86400//dt)
SecondsPerDay == 86400
\* the "2 *" of 2*const.k in gain()
TwoK == 2
\* gain *= 10**(-26)
JanskyExp == -26
\* "2 * telescope.bandwidth*10**(6)": the number of polarizations
Polarizations == 2
\* telescope.bandwidth*10**(6): MHz to Hz
MHzExp == 6

\* Python's None, and an exception raised instead of a value returned.
None == [none |-> TRUE]
IsNone(x) == "none" \in DOMAIN x
Raise(e) == [raised |-> e]
Raised(r) == "raised" \in DOMAIN r

\* ------------------------------------------------------- exact arithmetic
Abs(x) == IF x < 0 THEN -x ELSE x

RECURSIVE GCD(_, _)
GCD(a, b) == IF b = 0 THEN a ELSE GCD(b, a % b)

\* The monomial n/d * pi^p * k^b * 10^t in lowest terms.
Mono(n, d, p, b, t) ==
    LET g == GCD(Abs(n), Abs(d))
        s == IF d < 0 THEN -1 ELSE 1
    IN  IF n = 0 THEN [n |-> 0, d |-> 1, p |-> 0, b |-> 0, t |-> 0]
        ELSE [n |-> s * (n \div g), d |-> s * (d \div g), p |-> p, b |-> b, t |-> t]

Rat(n, d) == Mono(n, d, 0, 0, 0)
Num(n) == Rat(n, 1)
\* const.pi and const.k
Pi == Mono(1, 1, 1, 0, 0)
Boltzmann == Mono(1, 1, 0, 1, 0)
\* 10**e
TenTo(e) == Mono(1, 1, 0, 0, e)

Mul(x, y) == Mono(x.n * y.n, x.d * y.d, x.p + y.p, x.b + y.b, x.t + y.t)
\* x / y for y # 0
Div(x, y) == Mono(x.n * y.d, x.d * y.n, x.p - y.p, x.b - y.b, x.t - y.t)
\* x ** 2
Sq(x) == Mul(x, x)
IsZero(x) == x.n = 0
IsPositive(x) == x.n > 0

\* --------------------------------------------------------------- the text
Digits == {"0", "1", "2", "3", "4", "5", "6", "7", "8", "9"}

DigitVal(c) ==
    CASE c = "0" -> 0 [] c = "1" -> 1 [] c = "2" -> 2 [] c = "3" -> 3
      [] c = "4" -> 4 [] c = "5" -> 5 [] c = "6" -> 6 [] c = "7" -> 7
      [] c = "8" -> 8 [] c = "9" -> 9

\* The number a sequence of digits denotes.
RECURSIVE DigitsToNat(_)
DigitsToNat(s) ==
    IF s = <<>> THEN 0
    ELSE 10 * DigitsToNat(SubSeq(s, 1, Len(s) - 1)) + DigitVal(s[Len(s)])

RECURSIVE Pow10(_)
Pow10(e) == IF e = 0 THEN 1 ELSE 10 * Pow10(e - 1)

\* str.lower() on the answers main() reads
LowerChar(c) ==
    CASE c = "Y" -> "y" [] c = "E" -> "e" [] c = "S" -> "s" [] c = "N" -> "n"
      [] c = "O" -> "o" [] OTHER -> c

lower(s) == [i \in 1..Len(s) |-> LowerChar(s[i])]

\* doplot.lower() in ["y","yes"]
IsYes(s) == lower(s) \in {<<"y">>, <<"y", "e", "s">>}

ValueError == "ValueError"
ZeroDivisionError == "ZeroDivisionError"
\* an error of the transform that is no ValueError (e.g. the earth
\* orientation data cannot be fetched)
OSError == "OSError"
NoError == "NoError"

\* float(SNR): an optional sign, digits with at most one ".", at least one
\* digit.  Anything else raises ValueError.
float(s) ==
    LET body == IF s # <<>> /\ s[1] \in {"+", "-"} THEN Tail(s) ELSE s
        dots == {i \in 1..Len(body) : body[i] = "."}
        ok   == /\ \A i \in 1..Len(body) : body[i] \in Digits \cup {"."}
                /\ Cardinality(dots) <= 1
                /\ Len(body) - Cardinality(dots) >= 1
        dot  == IF dots = {} THEN Len(body) + 1 ELSE CHOOSE i \in dots : TRUE
        int  == SubSeq(body, 1, dot - 1)
        frac == SubSeq(body, dot + 1, Len(body))
        mag  == DigitsToNat(int \o frac)
        sign == IF s[1] = "-" THEN -1 ELSE 1
    IN  IF ok THEN Rat(sign * mag, Pow10(Len(frac))) ELSE Raise(ValueError)

\* ------------------------------------------------------------- the dates
IsLeap(y) == (y % 4 = 0 /\ y % 100 # 0) \/ y % 400 = 0

DaysInMonth(y, m) ==
    IF m = 2 THEN (IF IsLeap(y) THEN 29 ELSE 28)
    ELSE IF m \in {4, 6, 9, 11} THEN 30 ELSE 31

AllDigits(s) == \A i \in 1..Len(s) : s[i] \in Digits

\* Time without the calendar: any day 1..31 of any month is taken.
Time_no_calendar(s) ==
    LET shape == /\ Len(s) = 19
                 /\ s[5] = "-" /\ s[8] = "-" /\ s[11] = " "
                 /\ s[14] = ":" /\ s[17] = ":"
                 /\ AllDigits(SubSeq(s, 1, 4)) /\ AllDigits(SubSeq(s, 6, 7))
                 /\ AllDigits(SubSeq(s, 9, 10)) /\ AllDigits(SubSeq(s, 12, 13))
                 /\ AllDigits(SubSeq(s, 15, 16)) /\ AllDigits(SubSeq(s, 18, 19))
        y  == DigitsToNat(SubSeq(s, 1, 4))
        m  == DigitsToNat(SubSeq(s, 6, 7))
        d  == DigitsToNat(SubSeq(s, 9, 10))
        hh == DigitsToNat(SubSeq(s, 12, 13))
        mm == DigitsToNat(SubSeq(s, 15, 16))
        ss == DigitsToNat(SubSeq(s, 18, 19))
    IN  IF /\ shape
           /\ m \in 1..12 /\ d \in 1..31
           /\ hh \in 0..23 /\ mm \in 0..59 /\ ss \in 0..59
        THEN [year |-> y, month |-> m, day |-> d, sec |-> 3600 * hh + 60 * mm + ss]
        ELSE Raise(ValueError)

\* astrotime.Time(text): text is "YYYY-MM-DD HH:MM:SS" and names a day of the
\* civil calendar and a time of that day, else ValueError.  The value is the
\* UTC instant [year, month, day, sec], sec the seconds since 00:00:00.
Time(s) ==
    LET shape == /\ Len(s) = 19
                 /\ s[5] = "-" /\ s[8] = "-" /\ s[11] = " "
                 /\ s[14] = ":" /\ s[17] = ":"
                 /\ AllDigits(SubSeq(s, 1, 4)) /\ AllDigits(SubSeq(s, 6, 7))
                 /\ AllDigits(SubSeq(s, 9, 10)) /\ AllDigits(SubSeq(s, 12, 13))
                 /\ AllDigits(SubSeq(s, 15, 16)) /\ AllDigits(SubSeq(s, 18, 19))
        y  == DigitsToNat(SubSeq(s, 1, 4))
        m  == DigitsToNat(SubSeq(s, 6, 7))
        d  == DigitsToNat(SubSeq(s, 9, 10))
        hh == DigitsToNat(SubSeq(s, 12, 13))
        mm == DigitsToNat(SubSeq(s, 15, 16))
        ss == DigitsToNat(SubSeq(s, 18, 19))
    IN  IF /\ shape
           /\ m \in 1..12 /\ d \in 1..DaysInMonth(y, m)
           /\ hh \in 0..23 /\ mm \in 0..59 /\ ss \in 0..59
        THEN [year |-> y, month |-> m, day |-> d, sec |-> 3600 * hh + 60 * mm + ss]
        ELSE Raise(ValueError)

\* date + ' ' + '00:00:00'
Midnight(date) == date \o <<" ", "0", "0", ":", "0", "0", ":", "0", "0">>

\* Time + TimeDelta: an instant delta seconds (0 <= delta < 2 days) later.
NextDay(t) ==
    IF t.day < DaysInMonth(t.year, t.month) THEN [t EXCEPT !.day = @ + 1]
    ELSE IF t.month < 12 THEN [t EXCEPT !.month = @ + 1, !.day = 1]
    ELSE [t EXCEPT !.year = @ + 1, !.month = 1, !.day = 1]

TimePlus(t, delta) ==
    LET total == t.sec + delta
    IN  IF total < SecondsPerDay THEN [t EXCEPT !.sec = total]
        ELSE [NextDay(t) EXCEPT !.sec = total - SecondsPerDay]

\* ------------------------------------------------- the values main() reads
\* "YYYY-MM-DD" written out
Digits2(x) == <<ToString(x \div 10), ToString(x % 10)>>
Digits4(x) == Digits2(x \div 100) \o Digits2(x % 100)
DateText(y, m, d) == Digits4(y) \o <<"-">> \o Digits2(m) \o <<"-">> \o Digits2(d)

\* What is typed at "Enter date of observation in YYYY-MM-DD format: ".
DateInputs ==
    {DateText(y, m, d) : y \in {2023, 2024}, m \in {2, 13}, d \in {29, 30}}
      \cup {DateText(2023, 12, 31), DateText(2024, 12, 32), DateText(2024, 4, 31)}
      \cup {<<>>, <<"a", "b", "c">>, <<"2", "0", "2", "4">>}

\* What is typed at the two yes/no questions.
Answers == {<<"y">>, <<"Y", "E", "S">>, <<"n", "o">>}

\* What is typed at "Enter signal-to-noise ratio you would like to achieve: ".
SNRInputs ==
    { <<"5">>, <<"1", "0">>, <<"2", ".", "5">>, <<".", "5">>, <<"0">>,
      <<"-", "5">>, <<"a", "b", "c">>, <<>>, <<"-">>, <<"1", ".", "2", ".", "3">> }

\* The values the user may have written at the top of the script.
Diameters == {Num(x) : x \in 0..MaxDiameter}
Bandwidths == {Num(x) : x \in 0..MaxBandwidth}
Efficiencies == {Rat(1, 2), Num(1), Rat(3, 2)}
Temperatures == {Num(-5), Num(130)}
FluxDensities == {Num(x) : x \in 0..MaxFlux}

T_name == "42-ft telescope"
T_latitude == "53d 14m 10.5s"
T_longitude == "2d 18m 25.7s"
T_frequency == Num(610)
S_name == "B0833-45"
S_RA == "08:35:20.6"
S_Dec == "-45:10:34.8"

\* ------------------------------------------------------------ the classes
\* Telescope.__init__
Telescope(t_name, t_location, t_diameter, t_frequency, t_bandwidth, t_aperture_efficiency, t_system_temperature) ==
    [ name |-> t_name, location |-> t_location, diameter |-> t_diameter,
      frequency |-> t_frequency, bandwidth |-> t_bandwidth,
      aperture_efficiency |-> t_aperture_efficiency,
      system_temperature |-> t_system_temperature ]

\* Telescope.effective_area
effective_area(self) ==
    Mul(Mul(self.aperture_efficiency, Pi), Sq(Div(self.diameter, Num(2))))

\* gain without the conversion to K/Jy
gain_no_jansky(self) ==
    Div(effective_area(self), Mul(Num(TwoK), Boltzmann))

\* Telescope.gain
gain(self) ==
    Mul(Div(effective_area(self), Mul(Num(TwoK), Boltzmann)), TenTo(JanskyExp))

\* Source.__init__
Source(s_name, s_location, s_flux_density) ==
    [ name |-> s_name, location |-> s_location, flux_density |-> s_flux_density ]

\* integration_time with SNR where the code has SNR**2
integration_time_linear(self, telescope, snr) ==
    LET numerator   == Mul(snr, Sq(telescope.system_temperature))
        denominator == Mul(Mul(Mul(Sq(Mul(gain(telescope), self.flux_density)),
                                   Num(Polarizations)),
                               telescope.bandwidth),
                           TenTo(MHzExp))
    IN  IF IsZero(denominator) THEN Raise(ZeroDivisionError)
        ELSE Div(numerator, denominator)

\* The integration_time of Source.print_integration_time, or the
\* ZeroDivisionError of its division.
integration_time(self, telescope, snr) ==
    LET numerator   == Mul(Sq(snr), Sq(telescope.system_temperature))
        denominator == Mul(Mul(Mul(Sq(Mul(gain(telescope), self.flux_density)),
                                   Num(Polarizations)),
                               telescope.bandwidth),
                           TenTo(MHzExp))
    IN  IF IsZero(denominator) THEN Raise(ZeroDivisionError)
        ELSE Div(numerator, denominator)

\* coords.AltAz(location, obstime) and self.location.transform_to(aa).alt.deg:
\* the coordinate transform is astropy's.  A deterministic stand-in with
\* values in -90..90 that depends on the instant.
alt_deg(position, location, obstime) ==
    (((obstime.sec \div dt) * 37 + obstime.day) % 181) - 90

\* the grid with its end point included
ObservationTimes_inclusive(t0) ==
    [i \in 1..((SecondsPerDay \div dt) + 1) |-> TimePlus(t0, dt * (i - 1))]

\* dt_astropy * np.arange(0, 86400//dt) added to the midnight of the date
ObservationTimes(t0) ==
    [i \in 1..(SecondsPerDay \div dt) |-> TimePlus(t0, dt * (i - 1))]

\* The element the for loop of plot_altitude visits next.
NextObservation(times, done) == times[Len(done) + 1]

\* insert at the front where the code appends
Collect_prepend(done, altitude) == <<altitude>> \o done

\* altitudes.append(...)
Collect(done, altitude) == Append(done, altitude)

\* ------------------------------------------------------------------ state
VARIABLES
    T_diameter, T_bandwidth, T_aperture_efficiency, T_system_temperature,
    S_flux_density,      \* the settings at the top of the script
    pc,                  \* where main() is
    Tel, Src,            \* main's objects, None before they are constructed
    doplot, date, dotime, SNR_text, SNR,   \* main's locals
    observation_times, altitudes,          \* plot_altitude's locals
    calls,               \* the transform calls made, in order, with their results
    figure,              \* the figure shown, None if there is none
    out,                 \* what was printed, in order
    raising              \* the exception being raised, NoError if none

settings == <<T_diameter, T_bandwidth, T_aperture_efficiency,
              T_system_temperature, S_flux_density>>
locals == <<doplot, date, dotime, SNR_text, SNR>>
plot == <<observation_times, altitudes, calls, figure>>
vars == <<settings, pc, Tel, Src, locals, plot, out, raising>>

Line(msg, data) == [msg |-> msg, data |-> data]

Init ==
    /\ T_diameter \in Diameters
    /\ T_bandwidth \in Bandwidths
    /\ T_aperture_efficiency \in Efficiencies
    /\ T_system_temperature \in Temperatures
    /\ S_flux_density \in FluxDensities
    /\ pc = "Telescope"
    /\ Tel = None /\ Src = None
    /\ doplot = <<>> /\ date = <<>> /\ dotime = <<>> /\ SNR_text = <<>>
    /\ SNR = None
    /\ observation_times = <<>> /\ altitudes = <<>> /\ calls = <<>>
    /\ figure = None
    /\ out = <<>>
    /\ raising = NoError

\* main, lines 143-144
main_Telescope ==
    /\ pc = "Telescope"
    /\ Tel' = Telescope(T_name, [lat |-> T_latitude, lon |-> T_longitude],
                        T_diameter, T_frequency, T_bandwidth,
                        T_aperture_efficiency, T_system_temperature)
    /\ pc' = "Tel.print_data"
    /\ UNCHANGED <<settings, Src, locals, plot, out, raising>>

\* Telescope.print_data, called at line 145
Telescope_print_data ==
    /\ pc = "Tel.print_data"
    /\ out' = Append(out, Line("TELESCOPE", Tel))
    /\ pc' = "Source"
    /\ UNCHANGED <<settings, Tel, Src, locals, plot, raising>>

\* main, lines 148-149
main_Source ==
    /\ pc = "Source"
    /\ Src' = Source(S_name, [ra |-> S_RA, dec |-> S_Dec], S_flux_density)
    /\ pc' = "Src.print_data"
    /\ UNCHANGED <<settings, Tel, locals, plot, out, raising>>

\* Source.print_data, called at line 150
Source_print_data ==
    /\ pc = "Src.print_data"
    /\ out' = Append(out, Line("SOURCE", Src))
    /\ pc' = "doplot"
    /\ UNCHANGED <<settings, Tel, Src, locals, plot, raising>>

\* main, lines 153-154
main_doplot ==
    /\ pc = "doplot"
    /\ \E answer \in Answers :
        /\ doplot' = answer
        /\ pc' = IF IsYes(answer) THEN "date" ELSE "dotime"
    /\ UNCHANGED <<settings, Tel, Src, date, dotime, SNR_text, SNR, plot, out, raising>>

\* main, lines 155-157: the date is read and astrotime.Time tries it
main_date ==
    /\ pc = "date"
    /\ \E text \in DateInputs :
        /\ date' = text
        /\ IF Raised(Time(Midnight(text)))
           THEN /\ raising' = Time(Midnight(text)).raised
                /\ pc' = "except date"
           ELSE /\ raising' = raising
                /\ pc' = "plot_altitude"
    /\ UNCHANGED <<settings, Tel, Src, doplot, dotime, SNR_text, SNR, plot, out>>

\* Source.plot_altitude, lines 104-109
plot_altitude_times ==
    /\ pc = "plot_altitude"
    /\ LET t0 == Time(Midnight(date))
       IN  IF Raised(t0)
           THEN /\ raising' = t0.raised
                /\ pc' = "except date"
                /\ UNCHANGED <<observation_times, altitudes>>
           ELSE /\ observation_times' = ObservationTimes(t0)
                /\ altitudes' = <<>>
                /\ pc' = "for"
                /\ raising' = raising
    /\ UNCHANGED <<settings, Tel, Src, locals, calls, figure, out>>

\* The loop with the transform's exception swallowed: the sample is given
\* altitude 0 and the loop goes on.
plot_altitude_for_swallow ==
    /\ pc = "for"
    /\ Len(altitudes) < Len(observation_times)
    /\ LET observation_time == NextObservation(observation_times, altitudes)
           call == [location |-> Tel.location, obstime |-> observation_time,
                    position |-> Src.location]
       IN  \E outcome \in {NoError, ValueError, OSError} :
             IF outcome = NoError
             THEN LET alt == alt_deg(Src.location, Tel.location, observation_time)
                  IN  /\ calls' = Append(calls, [call |-> call, result |-> [alt |-> alt]])
                      /\ altitudes' = Collect(altitudes, alt)
                      /\ UNCHANGED <<observation_times, pc, raising>>
             ELSE /\ calls' = Append(calls, [call |-> call, result |-> Raise(outcome)])
                  /\ altitudes' = Collect(altitudes, 0)
                  /\ UNCHANGED <<observation_times, pc, raising>>
    /\ UNCHANGED <<settings, Tel, Src, locals, figure, out>>

\* Source.plot_altitude, lines 110-112: one pass of the loop.  The transform
\* returns an altitude or raises; plot_altitude has no try, so what the
\* transform raises leaves plot_altitude for main's try (lines 156-158).
plot_altitude_for ==
    /\ pc = "for"
    /\ Len(altitudes) < Len(observation_times)
    /\ LET observation_time == NextObservation(observation_times, altitudes)
           call == [location |-> Tel.location, obstime |-> observation_time,
                    position |-> Src.location]
       IN  \E outcome \in {NoError, ValueError, OSError} :
             IF outcome = NoError
             THEN LET alt == alt_deg(Src.location, Tel.location, observation_time)
                  IN  /\ calls' = Append(calls, [call |-> call, result |-> [alt |-> alt]])
                      /\ altitudes' = Collect(altitudes, alt)
                      /\ UNCHANGED <<observation_times, pc, raising>>
             ELSE /\ calls' = Append(calls, [call |-> call, result |-> Raise(outcome)])
                  /\ raising' = outcome
                  /\ pc' = "except date"
                  /\ observation_times' = <<>> /\ altitudes' = <<>>
    /\ UNCHANGED <<settings, Tel, Src, locals, figure, out>>

\* Source.plot_altitude, lines 115-125, and the return to main
plot_altitude_show ==
    /\ pc = "for"
    /\ Len(altitudes) = Len(observation_times)
    /\ figure' = [ title |-> <<Src.name, date>>,
                   points |-> [i \in 1..Len(observation_times) |->
                                 <<observation_times[i], altitudes[i]>>] ]
    /\ observation_times' = <<>> /\ altitudes' = <<>>
    /\ pc' = "dotime"
    /\ UNCHANGED <<settings, Tel, Src, locals, calls, out, raising>>

\* The handler without its return: main goes on to the next question.
main_except_date_no_return ==
    /\ pc = "except date"
    /\ IF raising = ValueError
       THEN /\ out' = Append(out, Line("Incorrect format for date!", None))
            /\ raising' = NoError
            /\ pc' = "dotime"
       ELSE /\ pc' = "raised"
            /\ UNCHANGED <<out, raising>>
    /\ UNCHANGED <<settings, Tel, Src, locals, plot>>

\* main, lines 159-161: "except ValueError" of the altitude step.  Any other
\* exception is not caught and ends the run.
main_except_date ==
    /\ pc = "except date"
    /\ IF raising = ValueError
       THEN /\ out' = Append(out, Line("Incorrect format for date!", None))
            /\ raising' = NoError
            /\ pc' = "return"
       ELSE /\ pc' = "raised"
            /\ UNCHANGED <<out, raising>>
    /\ UNCHANGED <<settings, Tel, Src, locals, plot>>

\* main, lines 163-164
main_dotime ==
    /\ pc = "dotime"
    /\ \E answer \in Answers :
        /\ dotime' = answer
        /\ pc' = IF IsYes(answer) THEN "SNR" ELSE "return"
    /\ UNCHANGED <<settings, Tel, Src, doplot, date, SNR_text, SNR, plot, out, raising>>

\* main, lines 165-167: the ratio is read and float tries it
main_SNR ==
    /\ pc = "SNR"
    /\ \E text \in SNRInputs :
        /\ SNR_text' = text
        /\ IF Raised(float(text))
           THEN /\ raising' = float(text).raised
                /\ pc' = "except SNR"
                /\ SNR' = SNR
           ELSE /\ SNR' = float(text)
                /\ pc' = "print_integration_time"
                /\ raising' = raising
    /\ UNCHANGED <<settings, Tel, Src, doplot, date, dotime, plot, out>>

\* print_integration_time that converts the telescope's bandwidth to Hz in
\* place.
print_integration_time_in_place ==
    /\ pc = "print_integration_time"
    /\ LET t == integration_time(Src, Tel, SNR)
       IN  IF Raised(t)
           THEN /\ raising' = t.raised
                /\ pc' = "except SNR"
                /\ out' = out
           ELSE /\ out' = Append(out, Line("The integration time is",
                                           [SNR |-> SNR, integration_time |-> t]))
                /\ pc' = "return"
                /\ raising' = raising
    /\ Tel' = [Tel EXCEPT !.bandwidth = Mul(@, TenTo(MHzExp))]
    /\ UNCHANGED <<settings, Src, locals, plot>>

\* Source.print_integration_time, called at line 168
print_integration_time ==
    /\ pc = "print_integration_time"
    /\ LET t == integration_time(Src, Tel, SNR)
       IN  IF Raised(t)
           THEN /\ raising' = t.raised
                /\ pc' = "except SNR"
                /\ out' = out
           ELSE /\ out' = Append(out, Line("The integration time is",
                                           [SNR |-> SNR, integration_time |-> t]))
                /\ pc' = "return"
                /\ raising' = raising
    /\ UNCHANGED <<settings, Tel, Src, locals, plot>>

\* main, lines 169-171: "except ValueError" of the integration-time step.
\* Any other exception is not caught and ends the run.
main_except_SNR ==
    /\ pc = "except SNR"
    /\ IF raising = ValueError
       THEN /\ out' = Append(out, Line("Not a valid signal-to-noise ratio!", None))
            /\ raising' = NoError
            /\ pc' = "return"
       ELSE /\ pc' = "raised"
            /\ UNCHANGED <<out, raising>>
    /\ UNCHANGED <<settings, Tel, Src, locals, plot>>

Next ==
    \/ main_Telescope
    \/ Telescope_print_data
    \/ main_Source
    \/ Source_print_data
    \/ main_doplot
    \/ main_date
    \/ plot_altitude_times
    \/ plot_altitude_for
    \/ plot_altitude_show
    \/ main_except_date
    \/ main_dotime
    \/ main_SNR
    \/ print_integration_time
    \/ main_except_SNR

Spec == Init /\ [][Next]_vars

\* ------------------------------------------------------------- properties
\* What the properties say of a run.
Started(place) == pc \notin {"Telescope", "Tel.print_data", "Source", "Src.print_data"} \cup place

\* The lines printed with the given text.
Printed(msg) == {i \in 1..Len(out) : out[i].msg = msg}

LastPrinted(msg) == out # <<>> /\ out[Len(out)].msg = msg

\* The date typed names a day of the civil calendar, in the calendar's own
\* terms: twelve months of 31, 28 or 29, 31, 30, ... days.
MonthLengths == <<31, 28, 31, 30, 31, 30, 31, 31, 30, 31, 30, 31>>

CivilDate(text) ==
    /\ Len(text) = 10
    /\ \A i \in {1, 2, 3, 4, 6, 7, 9, 10} : text[i] \in Digits
    /\ text[5] = "-" /\ text[8] = "-"
    /\ LET y == 1000 * DigitVal(text[1]) + 100 * DigitVal(text[2])
                  + 10 * DigitVal(text[3]) + DigitVal(text[4])
           m == 10 * DigitVal(text[6]) + DigitVal(text[7])
           d == 10 * DigitVal(text[9]) + DigitVal(text[10])
           leap == (y % 4 = 0 /\ y % 100 # 0) \/ y % 400 = 0
       IN  /\ 1 <= m /\ m <= 12
           /\ 1 <= d
           /\ d <= MonthLengths[m] + (IF m = 2 /\ leap THEN 1 ELSE 0)

\* The day a date names.
DayOf(text) ==
    [ year  |-> 1000 * DigitVal(text[1]) + 100 * DigitVal(text[2])
                  + 10 * DigitVal(text[3]) + DigitVal(text[4]),
      month |-> 10 * DigitVal(text[6]) + DigitVal(text[7]),
      day   |-> 10 * DigitVal(text[9]) + DigitVal(text[10]) ]

\* The date was asked for and typed.
DateTyped == IsYes(doplot) /\ Started({"doplot", "date"})

\* The grid plot_altitude works on, or has drawn.
Grid ==
    IF ~IsNone(figure) THEN [i \in 1..Len(figure.points) |-> figure.points[i][1]]
    ELSE observation_times

\* C1: for every valid date the sampler's grid is exactly 48 instants, the
\* i-th at i*1800 s after 00:00:00 of the date (i = 0..47): the first at
\* 00:00:00, the last at 23:30:00, 30 minutes apart, 24:00:00 not among them.
C1_Grid48 ==
    (DateTyped /\ CivilDate(date) /\ (pc = "for" \/ ~IsNone(figure))) =>
        /\ Len(Grid) = 48
        /\ \A i \in 1..Len(Grid) :
              /\ Grid[i].year = DayOf(date).year
              /\ Grid[i].month = DayOf(date).month
              /\ Grid[i].day = DayOf(date).day
              /\ Grid[i].sec = (i - 1) * 1800
        /\ Grid[1].sec = 0
        /\ Grid[Len(Grid)].sec = 23 * 3600 + 30 * 60
        /\ \A i \in 1..(Len(Grid) - 1) : Grid[i + 1].sec - Grid[i].sec = 30 * 60

\* C1 happens: a profile of a valid date has been drawn.
C1_Witness == DateTyped /\ CivilDate(date) /\ ~IsNone(figure)

\* C2: a date that names no day of the civil calendar is refused with a
\* ValueError before the transform is called: no call has been made, no
\* figure is drawn, and the run ends with the date error reported.
C2_RejectedBeforeTransform ==
    (DateTyped /\ ~CivilDate(date)) =>
        /\ calls = <<>>
        /\ IsNone(figure)
        /\ pc \in {"except date", "return"}
        /\ pc = "except date" => raising = ValueError
        /\ pc = "return" => LastPrinted("Incorrect format for date!")

\* C2 happens: 2024-02-30 was typed and refused.
C2_Witness ==
    /\ DateTyped /\ date = DateText(2024, 2, 30)
    /\ ~CivilDate(date)
    /\ pc = "return"

\* The invariants of the data model: diameter, bandwidth and system
\* temperature above 0, aperture efficiency in (0, 1], flux density above 0.
ValidTelescope(tel) ==
    /\ IsPositive(tel.diameter)
    /\ IsPositive(tel.bandwidth)
    /\ IsPositive(tel.system_temperature)
    /\ IsPositive(tel.aperture_efficiency)
    /\ tel.aperture_efficiency.n <= tel.aperture_efficiency.d

ValidSource(src) == IsPositive(src.flux_density)

\* C3: a Telescope or a Source whose parameters break an invariant of the
\* data model is never constructed (diameter 0, aperture efficiency 1.5,
\* system temperature -5 and flux density 0 among them).
C3_ConstructionRejects ==
    /\ ~IsNone(Tel) => ValidTelescope(Tel)
    /\ ~IsNone(Src) => ValidSource(Src)

\* The integration times printed.
Reported == Printed("The integration time is")

\* The ratio was asked for and typed.
SNRTyped == IsYes(dotime) /\ Started({"doplot", "date", "plot_altitude", "for",
                                      "except date", "dotime", "SNR"})

\* C4: an integration time is reported only for a ratio above 0; a ratio
\* that is no number or is not above 0 gets the error and no time.
C4_OnlyPositiveSNR ==
    /\ \A i \in Reported : IsPositive(out[i].data.SNR)
    /\ (SNRTyped /\ (Raised(float(SNR_text)) \/ ~IsPositive(float(SNR_text)))) =>
          Reported = {}

\* The call of the transform that raised, if one did.
Failed == {i \in 1..Len(calls) : Raised(calls[i].result)}

\* C5: when the transform raises at a sample, that call is the last one
\* made (no later sample is tried, none is tried twice), its exception is
\* the one main's try receives, and nothing of the profile is kept or drawn.
C5_FailFast ==
    /\ \A i \in Failed :
          /\ i = Len(calls)
          /\ IsNone(figure)
          /\ altitudes = <<>> /\ observation_times = <<>>
          /\ pc \in {"except date", "return", "raised"}
          /\ pc = "except date" => raising = calls[i].result.raised
          /\ pc = "raised" => raising = calls[i].result.raised
    /\ \A i, j \in 1..Len(calls) :
          i # j => calls[i].call.obstime # calls[j].call.obstime

\* C5 happens: the transform raised at the third sample and main's try has
\* the exception.
C5_Witness ==
    /\ pc = "except date"
    /\ Len(calls) = 3
    /\ Failed = {3}

\* a is an earlier instant than b
TimeBefore(a, b) ==
    \/ a.year < b.year
    \/ a.year = b.year /\ a.month < b.month
    \/ a.year = b.year /\ a.month = b.month /\ a.day < b.day
    \/ a.year = b.year /\ a.month = b.month /\ a.day = b.day /\ a.sec < b.sec

\* C6: the i-th call of the transform is the one for the i-th instant of
\* the grid, with the telescope's location and the source's position; the
\* i-th altitude is that call's result; the profile drawn has one point per
\* instant, in strictly ascending order of time.
C6_ChronologicalOneCallEach ==
    /\ pc = "for" =>
          /\ Len(altitudes) = Len(calls)
          /\ \A i \in 1..Len(calls) :
                /\ calls[i].call = [ location |-> Tel.location,
                                     obstime |-> observation_times[i],
                                     position |-> Src.location ]
                /\ altitudes[i] = calls[i].result.alt
    /\ ~IsNone(figure) =>
          /\ Len(calls) = Len(figure.points)
          /\ \A i \in 1..Len(figure.points) :
                /\ calls[i].call.obstime = figure.points[i][1]
                /\ calls[i].call.location = Tel.location
                /\ calls[i].call.position = Src.location
                /\ figure.points[i][2] = calls[i].result.alt
          /\ \A i \in 1..(Len(figure.points) - 1) :
                TimeBefore(figure.points[i][1], figure.points[i + 1][1])

\* C6 happens: a whole profile has been drawn.
C6_Witness == ~IsNone(figure) /\ Len(figure.points) > 1 /\ Len(calls) > 1

Twice(x) == Mul(Num(2), x)
FourTimes(x) == Mul(Num(4), x)

\* C7: for the telescope and source of the run and a ratio above 0, the
\* time reported is a quarter of the time for twice the ratio and of the
\* time for twice the system temperature, and four times the time for
\* twice the flux density.
C7_Scaling ==
    \A i \in Reported :
        LET v == out[i].data.SNR
            t == out[i].data.integration_time
        IN  IsPositive(v) =>
              /\ integration_time(Src, Tel, Twice(v)) = FourTimes(t)
              /\ integration_time(Src, [Tel EXCEPT !.system_temperature = Twice(@)], v)
                   = FourTimes(t)
              /\ FourTimes(integration_time([Src EXCEPT !.flux_density = Twice(@)], Tel, v))
                   = t

\* C7 happens: the time for a ratio of 5 has been reported.
C7_Witness == \E i \in Reported : out[i].data.SNR = Num(5)

\* C8: once constructed, the Telescope and the Source keep every field at
\* its value, and have the fields of their constructors and no other.
C8_NeverMutated ==
    [][ /\ ~IsNone(Tel) =>
              /\ Tel' = Tel
              /\ DOMAIN Tel' = {"name", "location", "diameter", "frequency",
                                "bandwidth", "aperture_efficiency",
                                "system_temperature"}
        /\ ~IsNone(Src) =>
              /\ Src' = Src
              /\ DOMAIN Src' = {"name", "location", "flux_density"} ]_vars

\* C8 happens: both objects were printed, a profile was drawn and an
\* integration time was reported.
C8_Witness ==
    /\ pc = "return"
    /\ Printed("TELESCOPE") # {} /\ Printed("SOURCE") # {}
    /\ ~IsNone(figure)
    /\ Reported # {}

\* The radiometer equation as the specification writes it.
RadiometerGain(tel) ==
    LET area == Mul(Mul(tel.aperture_efficiency, Pi),
                    Mul(Div(tel.diameter, Num(2)), Div(tel.diameter, Num(2))))
    IN  Mul(Div(area, Mul(Num(2), Boltzmann)), TenTo(-26))

RadiometerTime(tel, src, snr) ==
    Div(Mul(Mul(snr, snr), Mul(tel.system_temperature, tel.system_temperature)),
        Mul(Mul(Mul(RadiometerGain(tel), RadiometerGain(tel)),
                Mul(src.flux_density, src.flux_density)),
            Mul(Num(2), Mul(tel.bandwidth, TenTo(6)))))

\* C9: for a telescope and a source that keep the invariants and a ratio
\* above 0, the time reported is
\*   snr^2 * Tsys^2 / (gain^2 * flux^2 * 2 * bandwidth_MHz * 10^6),
\* gain = effective_area / (2 k) * 10^-26, and is above 0.
C9_RadiometerEquation ==
    \A i \in Reported :
        LET v == out[i].data.SNR
            t == out[i].data.integration_time
        IN  (ValidTelescope(Tel) /\ ValidSource(Src) /\ IsPositive(v)) =>
              /\ t = RadiometerTime(Tel, Src, v)
              /\ IsPositive(t)

\* C9 happens: a time was reported for a valid telescope and source and a
\* ratio above 0.
C9_Witness ==
    \E i \in Reported :
        ValidTelescope(Tel) /\ ValidSource(Src) /\ IsPositive(out[i].data.SNR)

\* The altitude step raised a ValueError: the date was refused, or the
\* transform raised one inside plot_altitude.
AltitudeValueError ==
    /\ DateTyped
    /\ \/ ~CivilDate(date)
       \/ \E i \in Failed : calls[i].result.raised = ValueError

\* The question about the integration time was put.
TimeAsked == pc = "dotime" \/ dotime # <<>>

\* C10: the integration-time question is put only when the altitude was
\* declined or its figure drawn; after a ValueError of the altitude step
\* the run prints the date error and ends, the question never put and no
\* time computed; a ratio that is no number ends the run with no time
\* printed.
C10_PromptFlow ==
    /\ TimeAsked => (~IsYes(doplot) \/ ~IsNone(figure))
    /\ AltitudeValueError =>
          /\ ~TimeAsked
          /\ SNR_text = <<>> /\ IsNone(SNR) /\ Reported = {}
          /\ pc \in {"except date", "return"}
          /\ pc = "return" => LastPrinted("Incorrect format for date!")
    /\ (SNRTyped /\ Raised(float(SNR_text))) =>
          /\ Reported = {}
          /\ pc \in {"except SNR", "return"}
          /\ pc = "return" => LastPrinted("Not a valid signal-to-noise ratio!")

\* C10 happens: the transform raised a ValueError inside plot_altitude and
\* the run has ended with the date error.
C10_Witness ==
    /\ pc = "return"
    /\ \E i \in Failed : calls[i].result.raised = ValueError
    /\ LastPrinted("Incorrect format for date!")

====
